---- MODULE Spec2Model ----
(***************************************************************************)
(* AdBlend AI: the form's onSubmit, the server action handleGenerateImage, *)
(* the input normalizer fileToDataUri and the two variants of              *)
(* generateBlendedImageFlow around the single ai.generate call.            *)
(***************************************************************************)
EXTENDS Integers, Sequences, FiniteSets, TLC

VARIABLES
    flowVariant,     \* which generate-blended-image module is deployed
    isLoading,       \* AdBlendForm state (useState)
    generatedImage,  \* AdBlendForm state (useState): Null or a data URI
    submitPc,        \* position of onSubmit: "idle", "awaiting", "thrown"
    inFlight,        \* calls of handleGenerateImage the form is awaiting
    pc,              \* position of handleGenerateImage
    origin,          \* who awaits the invocation: "none", "form", "direct"
    formData,        \* the FormData handed to handleGenerateImage
    norm,            \* state of the two fileToDataUri promises
    uris,            \* results of Promise.all, by index
    finished,        \* order in which the normalizations settled
    calls,           \* ai.generate calls issued by the current invocation
    payload,         \* the prompt list of the ai.generate call
    thrown,          \* the value caught by handleGenerateImage's catch, if any
    response,        \* what ai.generate resolved with, if it did
    settlement,      \* how the promise of handleGenerateImage settled
    encFile,         \* input of the fileToDataUri round trip
    encUri           \* output of fileToDataUri(encFile)

vars == <<flowVariant, isLoading, generatedImage, submitPc, inFlight, pc, origin, formData,
          norm, uris, finished, calls, payload, thrown, response, settlement,
          encFile, encUri>>

serverVars == <<pc, origin, formData, norm, uris, finished, calls, payload,
                thrown, response, settlement>>
formVars == <<isLoading, generatedImage, submitPc, inFlight>>
encVars == <<encFile, encUri>>

(***************************************************************************)
(* Bounds                                                                  *)
(***************************************************************************)
MaxLen == 3       \* longest byte content explored by the round trip
MaxInFlight == 2  \* most calls of the form awaited at once that are followed

(***************************************************************************)
(* JavaScript values                                                       *)
(***************************************************************************)
Undefined == [t |-> "undefined"]
Null == [t |-> "null"]
Str(s) == [t |-> "string", v |-> s]
FileOf(type, bytes) == [t |-> "file", type |-> type, bytes |-> bytes]

IsString(x) == x.t = "string"
IsFile(x) == x.t = "file"
Truthy(x) == IF x.t = "string" THEN x.v # "" ELSE x.t = "file"

Contains(s, m) ==
    \E i \in 1..(Len(s) - Len(m) + 1) : SubSeq(s, i, i + Len(m) - 1) = m

StartsWith(s, p) == Len(p) <= Len(s) /\ SubSeq(s, 1, Len(p)) = p

(***************************************************************************)
(* Input Normalizer: fileToDataUri                                         *)
(***************************************************************************)
Base64Alphabet ==
    "ABCDEFGHIJKLMNOPQRSTUVWXYZabcdefghijklmnopqrstuvwxyz0123456789+/"

Base64Char(n) == SubSeq(Base64Alphabet, n + 1, n + 1)

\* A plausible slip: the last partial group is dropped instead of padded.
RECURSIVE Base64EncodeNoTail(_)
Base64EncodeNoTail(bytes) ==
    IF Len(bytes) < 3 THEN ""
    ELSE LET n == bytes[1] * 65536 + bytes[2] * 256 + bytes[3] IN
         Base64Char(n \div 262144) \o Base64Char((n \div 4096) % 64)
           \o Base64Char((n \div 64) % 64) \o Base64Char(n % 64)
           \o Base64EncodeNoTail(SubSeq(bytes, 4, Len(bytes)))

\* buffer.toString('base64'): RFC 4648 with padding.
RECURSIVE Base64Encode(_)
Base64Encode(bytes) ==
    IF Len(bytes) = 0 THEN ""
    ELSE IF Len(bytes) = 1 THEN
         LET n == bytes[1] * 65536 IN
         Base64Char(n \div 262144) \o Base64Char((n \div 4096) % 64) \o "=="
    ELSE IF Len(bytes) = 2 THEN
         LET n == bytes[1] * 65536 + bytes[2] * 256 IN
         Base64Char(n \div 262144) \o Base64Char((n \div 4096) % 64)
           \o Base64Char((n \div 64) % 64) \o "="
    ELSE LET n == bytes[1] * 65536 + bytes[2] * 256 + bytes[3] IN
         Base64Char(n \div 262144) \o Base64Char((n \div 4096) % 64)
           \o Base64Char((n \div 64) % 64) \o Base64Char(n % 64)
           \o Base64Encode(SubSeq(bytes, 4, Len(bytes)))

\* `data:${file.type};base64,${buffer.toString('base64')}`
fileToDataUri(file) == "data:" \o file.type \o ";base64," \o Base64Encode(file.bytes)

(***************************************************************************)
(* Messages                                                                *)
(***************************************************************************)
InvalidFormMessage == "Invalid form data. Please ensure all fields are filled correctly."
NoImageMessage == "The AI failed to generate an image. Please try a different prompt."
FailedPrefix == "Failed to generate image: "
UnexpectedMessage == "An unexpected error occurred."
GenerationFailedMessage == "Image generation failed. Please try again."
TypeErrorMessage == "Cannot read properties of undefined (reading 'url')"
SchemaErrorMessage == "Schema validation failed."

NoValue == [t |-> "none"]
ErrorOf(m) == [t |-> "Error", message |-> m]
OtherThrown(m) == [t |-> "other", message |-> m]
Return(v) == [k |-> "return", value |-> v]
Throw(e) == [k |-> "throw", value |-> e]

(***************************************************************************)
(* Prompt/Call Orchestrator: generateBlendedImageFlow                      *)
(***************************************************************************)
FlowVariants == {"inline", "registered"}

Lit(s) == [k |-> "lit", s |-> s]
Var(s) == [k |-> "var", s |-> s]

\* The template, cut at its {{...}} expressions.
PromptTemplate ==
    << Lit("A "), Var("style"), Lit(" photograph of a fashionable model "),
       Var("action"), Lit(" the "), Var("productName"), Lit(". The scene is a "),
       Var("background"),
       Lit(". Professional studio lighting, high quality, photorealistic, commercial advertisement look. Use the first image as the model's appearance and the second image as the product.") >>

RECURSIVE Concat(_)
Concat(ss) == IF ss = <<>> THEN "" ELSE Head(ss) \o Concat(Tail(ss))

\* The template as the string literal the source holds.
generateBlendedImagePromptText ==
    Concat([i \in 1..Len(PromptTemplate) |->
              IF PromptTemplate[i].k = "lit" THEN PromptTemplate[i].s
              ELSE "{{" \o PromptTemplate[i].s \o "}}"])

\* The template with the input's values at its expressions.
RenderPrompt(input) ==
    Concat([i \in 1..Len(PromptTemplate) |->
              IF PromptTemplate[i].k = "lit" THEN PromptTemplate[i].s
              ELSE input[PromptTemplate[i].s]])

\* The value of the {text: ...} part. The inline flow passes the template
\* constant itself. The registered flow reads .prompt of the value the
\* registered prompt returns when called: no such property (undefined) or
\* the rendered text, depending on the prompt library.
PromptTextOutcomes(variant, input) ==
    IF variant = "inline" THEN {Str(generateBlendedImagePromptText)}
    ELSE {Undefined, Str(RenderPrompt(input))}

\* prompt: [{text}, {media: {url: modelImage}}, {media: {url: productImage}}]
PromptParts(text, input) ==
    << [text |-> text],
       [media |-> [url |-> input.modelImage]],
       [media |-> [url |-> input.productImage]] >>

\* What ai.generate can resolve with, as far as the flow reads it.
Media(url) == [t |-> "media", url |-> url]
ArtifactUrls == {"data:image/png;base64,QUJD", "https://cdn.example/ad.png"}
Responses ==
    {[media |-> Undefined]}
      \cup {[media |-> Media(u)] :
              u \in {Undefined, Str("")} \cup {Str(x) : x \in ArtifactUrls}}

\* What ai.generate can reject with.
RejectionMessages == {"", "quota exceeded", "503 Service Unavailable"}
Rejections ==
    {ErrorOf(m) : m \in RejectionMessages} \cup {OtherThrown(m) : m \in RejectionMessages}

\* media?.url
MediaUrl(resp) == IF resp.media = Undefined THEN Undefined ELSE resp.media.url

\* A plausible slip: the media check is inverted.
FlowAfterGenerateInverted(variant, resp) ==
    IF Truthy(MediaUrl(resp))
    THEN {Throw(ErrorOf(GenerationFailedMessage))}
    ELSE {Return([generatedImage |-> MediaUrl(resp)])}

\* The flow body after `await ai.generate(...)`: the set of its outcomes.
FlowAfterGenerate(variant, resp) ==
    IF variant = "inline" THEN
        IF ~Truthy(MediaUrl(resp))
        THEN {Throw(ErrorOf(GenerationFailedMessage))}
        ELSE {Return([generatedImage |-> resp.media.url])}
    ELSE
        \* media!.url! : the assertions compile to nothing
        IF resp.media = Undefined THEN {Throw(ErrorOf(TypeErrorMessage))}
        ELSE IF resp.media.url = Undefined
        THEN \* outputSchema is z.string(): returned as is, or refused
             {Return([generatedImage |-> Undefined]),
              Throw(ErrorOf(SchemaErrorMessage))}
        ELSE {Return([generatedImage |-> resp.media.url])}

(***************************************************************************)
(* Server action: handleGenerateImage                                      *)
(***************************************************************************)
Fields == {"modelImage", "productImage", "action", "style", "background", "productName"}
ImageFields == {"modelImage", "productImage"}
TextFields == {"action", "style", "background", "productName"}

\* actionInputSchema.safeParse(...).success
actionInputSchema(fd) ==
    /\ \A f \in ImageFields : IsFile(fd[f])
    /\ \A f \in TextFields : IsString(fd[f])

\* A plausible slip: the catch block returns the bare message.
CatchBare(e) ==
    Return([error |-> IF e.t = "Error" THEN e.message ELSE UnexpectedMessage])

\* catch (e) { ... return { error: `Failed to generate image: ${errorMessage}` } }
Catch(e) ==
    Return([error |-> FailedPrefix \o
                      (IF e.t = "Error" THEN e.message ELSE UnexpectedMessage)])

\* A plausible slip: the result of the flow is passed on without the check.
AfterFlowUnchecked(o) ==
    IF o.k = "throw" THEN Catch(o.value)
    ELSE Return([generatedImage |->
                   IF IsString(o.value.generatedImage)
                   THEN o.value.generatedImage.v ELSE ""])

\* Lines 52-63: from the settled generateBlendedImage(input) to the result.
AfterFlow(o) ==
    IF o.k = "throw" THEN Catch(o.value)
    ELSE IF ~Truthy(o.value.generatedImage)
         THEN Return([error |-> NoImageMessage])
         ELSE Return([generatedImage |-> o.value.generatedImage.v])

\* A plausible slip: results collected in the order the promises finished.
PromiseAllByCompletion(u, fin) == <<u[fin[1]], u[fin[2]]>>

\* const [modelImageUri, productImageUri] = await Promise.all([...])
PromiseAll(u, fin) == <<u["modelImage"], u["productImage"]>>

\* const input: GenerateBlendedImageInput = {...}
FlowInput(fd, pair) ==
    [modelImage |-> pair[1], productImage |-> pair[2],
     action |-> fd["action"].v, style |-> fd["style"].v,
     background |-> fd["background"].v, productName |-> fd["productName"].v]

IdleNorm == [f \in ImageFields |-> "idle"]
IdleUris == [f \in ImageFields |-> ""]
IdleFormData == [f \in Fields |-> Null]

\* The state of no invocation of handleGenerateImage being under way.
ServerIdle ==
    /\ pc = "idle" /\ origin = "none" /\ formData = IdleFormData
    /\ norm = IdleNorm /\ uris = IdleUris /\ finished = <<>>
    /\ calls = 0 /\ payload = <<>> /\ thrown = NoValue /\ response = NoValue
    /\ settlement = NoValue

\* Lines 21-41: validation, then both fileToDataUri calls are started.
HandleStart(fd, org) ==
    /\ pc = "idle"
    /\ origin' = org
    /\ formData' = fd
    /\ IF ~actionInputSchema(fd)
       THEN /\ pc' = "settled"
            /\ settlement' = Return([error |-> InvalidFormMessage])
            /\ norm' = IdleNorm
       ELSE /\ pc' = "normalizing"
            /\ settlement' = NoValue
            /\ norm' = [f \in ImageFields |-> "pending"]
    /\ UNCHANGED <<uris, finished, calls, payload, thrown, response>>

\* A plausible slip: the first settled promise is enough (Promise.race/any).
AnyNormalized(n) == \E f \in ImageFields : n[f] = "done"

\* Promise.all resolves when every fileToDataUri promise has resolved.
AllNormalized(n) == \A f \in ImageFields : n[f] = "done"

\* One fileToDataUri promise resolves; when it is the second, Promise.all
\* resolves, the input is built and the flow issues its ai.generate call.
NormalizeDone(which) ==
    /\ pc = "normalizing"
    /\ norm[which] = "pending"
    /\ LET u == [uris EXCEPT ![which] = fileToDataUri(formData[which])]
           fin == Append(finished, which)
           n == [norm EXCEPT ![which] = "done"]
       IN /\ uris' = u
          /\ finished' = fin
          /\ norm' = n
          /\ IF AllNormalized(n)
             THEN LET input == FlowInput(formData, PromiseAll(u, fin)) IN
                  \E text \in PromptTextOutcomes(flowVariant, input) :
                    /\ payload' = PromptParts(text, input)
                    /\ calls' = calls + 1
                    /\ pc' = "calling"
             ELSE UNCHANGED <<payload, calls, pc>>
    /\ UNCHANGED <<flowVariant, origin, formData, thrown, response, settlement>>
    /\ UNCHANGED formVars /\ UNCHANGED encVars

\* file.arrayBuffer() rejects: Promise.all rejects and the catch block runs.
NormalizeFail(which, e) ==
    /\ pc = "normalizing"
    /\ norm[which] = "pending"
    /\ norm' = [norm EXCEPT ![which] = "failed"]
    /\ finished' = Append(finished, which)
    /\ thrown' = e
    /\ settlement' = Catch(e)
    /\ pc' = "settled"
    /\ UNCHANGED <<flowVariant, origin, formData, uris, calls, payload, response>>
    /\ UNCHANGED formVars /\ UNCHANGED encVars

\* ai.generate resolves: the flow finishes and handleGenerateImage returns.
GenerateResolve(resp) ==
    /\ pc = "calling"
    /\ response' = resp
    /\ \E o \in FlowAfterGenerate(flowVariant, resp) :
         /\ settlement' = AfterFlow(o)
         /\ thrown' = IF o.k = "throw" THEN o.value ELSE NoValue
    /\ pc' = "settled"
    /\ UNCHANGED <<flowVariant, origin, formData, norm, uris, finished, calls, payload>>
    /\ UNCHANGED formVars /\ UNCHANGED encVars

\* A plausible slip: a rejected call is issued once more.
OnGenerateRejectRetry(e, c) ==
    IF c < 2
    THEN [pc |-> "calling", calls |-> c + 1, settlement |-> NoValue]
    ELSE [pc |-> "settled", calls |-> c, settlement |-> Catch(e)]

\* The rejection reaches the catch block, which returns: no second call.
OnGenerateReject(e, c) == [pc |-> "settled", calls |-> c, settlement |-> Catch(e)]

\* ai.generate rejects: the flow rejects and the catch block runs.
GenerateReject(e) ==
    /\ pc = "calling"
    /\ thrown' = e
    /\ LET after == OnGenerateReject(e, calls) IN
       /\ pc' = after.pc
       /\ calls' = after.calls
       /\ settlement' = after.settlement
    /\ UNCHANGED <<flowVariant, origin, formData, norm, uris, finished,
                   payload, response>>
    /\ UNCHANGED formVars /\ UNCHANGED encVars

ResetServer ==
    /\ pc' = "idle" /\ origin' = "none" /\ formData' = IdleFormData
    /\ norm' = IdleNorm /\ uris' = IdleUris /\ finished' = <<>>
    /\ calls' = 0 /\ payload' = <<>> /\ thrown' = NoValue /\ response' = NoValue
    /\ settlement' = NoValue

(***************************************************************************)
(* Inputs                                                                  *)
(***************************************************************************)
JpegBytes == <<255, 216, 255>>
PngBytes == <<137, 80>>

\* Files a user or a direct caller can hand in.
Files ==
    { FileOf("image/jpeg", JpegBytes), FileOf("image/png", PngBytes),
      FileOf("image/png", <<>>), FileOf("text/plain", PngBytes) }

Strs(S) == {Str(x) : x \in S}

\* What the form can hold in its fields when the user presses the button.
FormCandidates ==
    [modelImage : {Undefined} \cup Files,
     productImage : {Undefined} \cup Files,
     action : Strs({"", "holding delicately"}),
     style : Strs({"", "close-up", "cinematic"}),
     background : Strs({"", "urban street at night"}),
     productName : Strs({"", "TV", "red sneaker"})]

\* What FormData.get can return for the fields of a request sent by any client.
DirectCandidates ==
    [modelImage : {Null, Str("")} \cup Files,
     productImage : {Null, Str("")} \cup Files,
     action : {Null} \cup Strs({"", "holding delicately"}),
     style : Strs({"", "close-up", "cinematic"}),
     background : {FileOf("image/png", PngBytes)} \cup Strs({"urban street at night"}),
     productName : Strs({"", "TV", "red sneaker"})]

(***************************************************************************)
(* Form: AdBlendForm                                                       *)
(***************************************************************************)
ACCEPTED_IMAGE_TYPES == {"image/jpeg", "image/jpg", "image/png", "image/webp"}

\* formSchema, the resolver of the form: onSubmit runs only when it passes.
formSchema(v) ==
    /\ \A f \in ImageFields :
         /\ IsFile(v[f])
         /\ Len(v[f].bytes) > 0
         /\ v[f].type \in ACCEPTED_IMAGE_TYPES
    /\ IsString(v["productName"]) /\ Len(v["productName"].v) >= 3
    /\ \A f \in {"action", "style", "background"} :
         IsString(v[f]) /\ Len(v[f].v) >= 1

\* A plausible slip: the button is never disabled.
SubmitEnabledAlways == TRUE

\* The submit button: disabled={isLoading}
SubmitEnabled == ~isLoading

\* A plausible slip: the previous image is not cleared.
BeforeAwaitKeepsImage == [isLoading |-> TRUE, generatedImage |-> generatedImage]

\* setIsLoading(true); setGeneratedImage(null);
BeforeAwait == [isLoading |-> TRUE, generatedImage |-> Null]

\* onSubmit up to `await handleGenerateImage(formData)`, and the start of the
\* server action on that FormData. A call made while an earlier call of the
\* form is still awaited shares nothing with it: it is counted, and the
\* earlier one is the one followed.
Submit(values) ==
    /\ SubmitEnabled
    /\ formSchema(values)
    /\ isLoading' = BeforeAwait.isLoading
    /\ generatedImage' = BeforeAwait.generatedImage
    /\ submitPc' = "awaiting"
    /\ inFlight' = inFlight + 1
    /\ IF pc = "idle"
       THEN HandleStart(values, "form")
       ELSE UNCHANGED serverVars
    /\ UNCHANGED flowVariant /\ UNCHANGED encVars

\* The server action called by a client other than the form.
DirectInvoke(fd) ==
    /\ HandleStart(fd, "direct")
    /\ UNCHANGED flowVariant /\ UNCHANGED formVars /\ UNCHANGED encVars

\* onSubmit after the await: lines 180-194.
AfterAwait(result) ==
    [isLoading |-> FALSE,
     generatedImage |->
        IF "error" \in DOMAIN result /\ result.error # "" THEN generatedImage
        ELSE IF "generatedImage" \in DOMAIN result /\ result.generatedImage # ""
             THEN Str(result.generatedImage)
             ELSE generatedImage]

\* The awaited promise settles and onSubmit resumes.
SubmitResume ==
    /\ origin = "form"
    /\ pc = "settled"
    /\ IF settlement.k = "return"
       THEN LET next == AfterAwait(settlement.value) IN
            /\ isLoading' = next.isLoading
            /\ generatedImage' = next.generatedImage
            /\ submitPc' = "idle"
       ELSE \* the await throws: onSubmit ends there
            /\ submitPc' = "thrown"
            /\ UNCHANGED <<isLoading, generatedImage>>
    /\ inFlight' = inFlight - 1
    /\ ResetServer
    /\ UNCHANGED flowVariant /\ UNCHANGED encVars

\* The call of the server action fails in transport (connection lost, request
\* refused): the await in onSubmit throws; the server, if reached, goes on.
TransportReject ==
    /\ origin = "form"
    /\ pc \in {"normalizing", "calling", "settled"}
    /\ submitPc' = "thrown"
    /\ inFlight' = inFlight - 1
    /\ origin' = "direct"
    /\ UNCHANGED <<isLoading, generatedImage, flowVariant>>
    /\ UNCHANGED <<pc, formData, norm, uris, finished, calls, payload, thrown,
                   response, settlement>>
    /\ UNCHANGED encVars

\* The result panel: skeleton while loading, else the image if there is one,
\* else the placeholder.
ResultPanel ==
    IF isLoading THEN "skeleton"
    ELSE IF Truthy(generatedImage) THEN "image"
    ELSE "placeholder"

\* The result goes back to a client other than the form.
DirectRespond ==
    /\ origin = "direct"
    /\ pc = "settled"
    /\ ResetServer
    /\ UNCHANGED flowVariant /\ UNCHANGED formVars /\ UNCHANGED encVars

(***************************************************************************)
(* Specification                                                           *)
(***************************************************************************)
NormalizationErrors == {ErrorOf("The requested file could not be read"), OtherThrown("aborted")}

Init ==
    /\ flowVariant \in FlowVariants
    /\ isLoading = FALSE
    /\ generatedImage = Null
    /\ submitPc = "idle"
    /\ inFlight = 0
    /\ ServerIdle
    /\ encFile = FileOf("image/png", <<>>)
    /\ encUri = NoValue

SubmitStep ==
    /\ SubmitEnabled
    /\ origin # "direct"
    /\ inFlight < MaxInFlight
    /\ \E v \in FormCandidates : Submit(v)
DirectInvokeStep == pc = "idle" /\ \E fd \in DirectCandidates : DirectInvoke(fd)
NormalizeDoneStep == \E f \in ImageFields : NormalizeDone(f)
NormalizeFailStep == \E f \in ImageFields, e \in NormalizationErrors : NormalizeFail(f, e)
GenerateResolveStep == \E r \in Responses : GenerateResolve(r)
GenerateRejectStep == \E e \in Rejections : GenerateReject(e)

Next ==
    \/ SubmitStep
    \/ DirectInvokeStep
    \/ NormalizeDoneStep
    \/ NormalizeFailStep
    \/ GenerateResolveStep
    \/ GenerateRejectStep
    \/ SubmitResume
    \/ TransportReject
    \/ DirectRespond

Spec == Init /\ [][Next]_vars

(***************************************************************************)
(* The round trip of fileToDataUri, on its own                             *)
(***************************************************************************)
ByteValues == {0, 1, 77, 128, 255}
MimeTypes == {"image/jpeg", "image/png", ""}

RECURSIVE ByteSeqs(_)
ByteSeqs(n) ==
    IF n = 0 THEN {<<>>}
    ELSE LET shorter == ByteSeqs(n - 1) IN
         shorter \cup {Append(s, b) : s \in {x \in shorter : Len(x) = n - 1},
                                       b \in ByteValues}

EncInit ==
    /\ flowVariant \in FlowVariants
    /\ isLoading = FALSE
    /\ generatedImage = Null
    /\ submitPc = "idle"
    /\ inFlight = 0
    /\ ServerIdle
    /\ encFile \in {FileOf(t, b) : t \in MimeTypes, b \in ByteSeqs(MaxLen)}
    /\ encUri = NoValue

Encode ==
    /\ encUri = NoValue
    /\ encUri' = Str(fileToDataUri(encFile))
    /\ UNCHANGED <<flowVariant, encFile>>
    /\ UNCHANGED formVars /\ UNCHANGED serverVars

EncNext == Encode

EncSpec == EncInit /\ [][EncNext]_vars

(***************************************************************************)
(* Properties                                                              *)
(***************************************************************************)
CallIssued == pc \in {"calling", "settled"} /\ calls >= 1
Settled == pc = "settled"
Result == settlement.value
Populated(r, f) == f \in DOMAIN r /\ r[f] # ""

\* The request is a valid Generation Request: four non-empty texts and two
\* non-empty files of an accepted image type.
WellFormedRequest(fd) ==
    /\ \A f \in TextFields : IsString(fd[f]) /\ fd[f].v # ""
    /\ \A f \in ImageFields :
         IsFile(fd[f]) /\ Len(fd[f].bytes) > 0 /\ fd[f].type \in ACCEPTED_IMAGE_TYPES

ExpectedPrompt(fd) ==
    "A " \o fd["style"].v \o " photograph of a fashionable model " \o fd["action"].v
      \o " the " \o fd["productName"].v \o ". The scene is a " \o fd["background"].v
      \o ". Professional studio lighting, high quality, photorealistic, commercial advertisement look. Use the first image as the model's appearance and the second image as the product."

\* C1: for every valid request, the text part of the external call is the
\* template with the request's style, action, productName and background
\* substituted, and holds no unsubstituted placeholder.
C1_PromptSubstituted ==
    (CallIssued /\ WellFormedRequest(formData)) =>
        /\ payload[1].text = Str(ExpectedPrompt(formData))
        /\ ~Contains(payload[1].text.v, "{{")

\* The external call resolved with a response that carries no image.
ResolvedWithoutImage ==
    Settled /\ response # NoValue /\ ~Truthy(MediaUrl(response))

\* C2: when the external call resolves without an image artifact, the result
\* is exactly {error: "Image generation failed. Please try again."}.
C2_FixedMessage ==
    ResolvedWithoutImage =>
        /\ settlement.k = "return"
        /\ Result = [error |-> GenerationFailedMessage]

\* The external call rejected with the value held in thrown.
ExternalRejected ==
    Settled /\ calls >= 1 /\ response = NoValue /\ thrown # NoValue

\* C3 (as claimed): whatever the external call rejects with, the result holds
\* an error containing the rejection's message and no generatedImage.
C3_ErrorContainsMessage ==
    ExternalRejected =>
        /\ settlement.k = "return"
        /\ DOMAIN Result = {"error"}
        /\ Contains(Result.error, thrown.message)

\* C3 (amended): a rejection with an Error of message M gives the error
\* "Failed to generate image: " followed by M; a rejection with any other
\* value gives "Failed to generate image: An unexpected error occurred.";
\* generatedImage is not set and nothing is re-thrown.
C3_ErrorSurfaced ==
    ExternalRejected =>
        /\ settlement.k = "return"
        /\ DOMAIN Result = {"error"}
        /\ Result.error =
             FailedPrefix \o (IF thrown.t = "Error" THEN thrown.message
                              ELSE UnexpectedMessage)
        /\ thrown.t = "Error" => Contains(Result.error, thrown.message)

C3_Witness ==
    ExternalRejected /\ thrown = ErrorOf("quota exceeded")

\* The external call resolved with an image artifact.
ResolvedWithImage ==
    Settled /\ response # NoValue /\ Truthy(MediaUrl(response))

\* C4: when the external call resolves with an image artifact of encoded
\* form U, the result is exactly {generatedImage: U}.
C4_ImageReturned ==
    ResolvedWithImage =>
        /\ settlement.k = "return"
        /\ Result = [generatedImage |-> response.media.url.v]

C4_Witness ==
    ResolvedWithImage /\ response.media.url.v = "data:image/png;base64,QUJD"

\* C5: every invocation of handleGenerateImage resolves, never rejects, with
\* exactly one of generatedImage and error populated.
C5_ExactlyOne ==
    Settled =>
        /\ settlement.k = "return"
        /\ Populated(Result, "generatedImage") # Populated(Result, "error")

C5_Witness ==
    /\ Settled
    /\ response = [media |-> Media(Undefined)]
    /\ Result = [error |-> NoImageMessage]

C7_OnlyWellFormed == CallIssued => WellFormedRequest(formData)

\* C8: the payload of the external call is [text, model image, product
\* image]: second the encoding of the file sent as modelImage, third that of
\* the file sent as productImage, whichever normalization finished first.
C8_PayloadOrder ==
    CallIssued =>
        /\ Len(payload) = 3
        /\ DOMAIN payload[1] = {"text"}
        /\ payload[2] = [media |-> [url |-> fileToDataUri(formData["modelImage"])]]
        /\ payload[3] = [media |-> [url |-> fileToDataUri(formData["productImage"])]]

C8_Witness ==
    /\ pc = "calling"
    /\ finished = <<"productImage", "modelImage">>
    /\ formData["modelImage"] # formData["productImage"]
    /\ fileToDataUri(formData["modelImage"]) # fileToDataUri(formData["productImage"])

\* RFC 4648 decoding, strict: the inverse the round trip is measured with.
Base64Index(c) == CHOOSE i \in 0..63 : Base64Char(i) = c
IsBase64Char(c) == \E i \in 0..63 : Base64Char(i) = c
DecodeFailed == <<-1>>

RECURSIVE Base64Decode(_)
Base64Decode(s) ==
    IF Len(s) = 0 THEN <<>>
    ELSE IF Len(s) < 4 THEN DecodeFailed
    ELSE LET c1 == SubSeq(s, 1, 1)
             c2 == SubSeq(s, 2, 2)
             c3 == SubSeq(s, 3, 3)
             c4 == SubSeq(s, 4, 4)
             rest == SubSeq(s, 5, Len(s))
         IN IF ~(IsBase64Char(c1) /\ IsBase64Char(c2)) THEN DecodeFailed
            ELSE IF c3 = "=" THEN
                 IF c4 = "=" /\ rest = "" /\ Base64Index(c2) % 16 = 0
                 THEN <<Base64Index(c1) * 4 + Base64Index(c2) \div 16>>
                 ELSE DecodeFailed
            ELSE IF ~IsBase64Char(c3) THEN DecodeFailed
            ELSE IF c4 = "=" THEN
                 IF rest = "" /\ Base64Index(c3) % 4 = 0
                 THEN <<Base64Index(c1) * 4 + Base64Index(c2) \div 16,
                        (Base64Index(c2) % 16) * 16 + Base64Index(c3) \div 4>>
                 ELSE DecodeFailed
            ELSE IF ~IsBase64Char(c4) THEN DecodeFailed
            ELSE LET tail == Base64Decode(rest) IN
                 IF tail = DecodeFailed THEN DecodeFailed
                 ELSE <<Base64Index(c1) * 4 + Base64Index(c2) \div 16,
                        (Base64Index(c2) % 16) * 16 + Base64Index(c3) \div 4,
                        (Base64Index(c3) % 4) * 64 + Base64Index(c4)>> \o tail

DataUriPrefix(type) == "data:" \o type \o ";base64,"

\* C9: fileToDataUri(file) is data:T;base64,<payload>, and the payload
\* decodes to exactly the file's bytes, the empty content included.
C9_RoundTrip ==
    encUri # NoValue =>
        LET prefix == DataUriPrefix(encFile.type) IN
        /\ StartsWith(encUri.v, prefix)
        /\ Base64Decode(SubSeq(encUri.v, Len(prefix) + 1, Len(encUri.v))) = encFile.bytes

C9_Witness ==
    /\ encUri # NoValue
    /\ Len(encFile.bytes) = 2
    /\ encFile.bytes[1] = 255

\* C10: a submission that set isLoading never leaves it set once onSubmit has
\* ended, whether the awaited call returned or rejected.
C10_BackToIdle == submitPc # "awaiting" => ~isLoading

\* C11: the two normalizations settle in either order; the external call is
\* never issued before both have completed; when either fails, no call is
\* made and the invocation ends with an error result.
C11_BothBeforeCall ==
    /\ CallIssued => \A f \in ImageFields : norm[f] = "done"
    /\ (\E f \in ImageFields : norm[f] = "failed") =>
          /\ Settled
          /\ calls = 0
          /\ settlement.k = "return"
          /\ DOMAIN Result = {"error"}
          /\ Result.error # ""

C11_Witness ==
    /\ Settled
    /\ finished = <<"productImage", "modelImage">>
    /\ norm = [modelImage |-> "failed", productImage |-> "done"]
    /\ calls = 0

\* C12: a form never has two submissions in flight: while isLoading is true
\* the button is disabled, so handleGenerateImage is not called again before
\* the earlier call has settled and isLoading is false again; the form has
\* at most one external call outstanding.
C12_OneInFlight ==
    /\ inFlight <= 1
    /\ ~isLoading => inFlight = 0
    /\ origin = "form" => (inFlight = 1 /\ isLoading)

C12_Witness == origin = "form" /\ pc = "calling" /\ inFlight = 1 /\ ~SubmitEnabled

\* A step in which onSubmit starts, and one in which its awaited call returns.
SubmissionStarts == inFlight' = inFlight + 1
SubmissionReturns == origin = "form" /\ pc = "settled" /\ origin' = "none"
ReturnedImage ==
    settlement.k = "return" /\ Populated(Result, "generatedImage")
      /\ ~Populated(Result, "error")

\* C13: the image the form holds belongs to its most recent submission.
\* Starting a submission sets generatedImage to null; it becomes non-null
\* only in the step in which that submission's call returns a result with
\* generatedImage and no error, and then it is that image; when the call
\* returns an error or throws, generatedImage is null whatever an earlier
\* submission produced; while isLoading is true the panel shows no image.
C13_LatestImage ==
    /\ [](submitPc \in {"awaiting", "thrown"} => generatedImage = Null)
    /\ [](isLoading => ResultPanel # "image")
    /\ [][ /\ SubmissionStarts => generatedImage' = Null
           /\ (generatedImage' # generatedImage /\ generatedImage' # Null) =>
                 /\ SubmissionReturns
                 /\ ReturnedImage
                 /\ generatedImage' = Str(Result.generatedImage)
           /\ (SubmissionReturns /\ ~ReturnedImage) => generatedImage' = Null
           /\ (SubmissionReturns /\ ReturnedImage) =>
                 generatedImage' = Str(Result.generatedImage)
         ]_vars

C13_Witness ==
    /\ ResultPanel = "image"
    /\ generatedImage = Str("https://cdn.example/ad.png")
    /\ submitPc = "idle"

====
